---- MODULE Spec2Model ----
(***************************************************************************)
(* Model of the multi-provider AI invocation layer of the coaching         *)
(* backend: backend/services/ai_providers/manager.py (AIProviderManager)   *)
(* and the parts of base.py / ollama_provider.py it depends on.            *)
(*                                                                         *)
(* The manager is a process-wide object used from asyncio coroutines.  A   *)
(* manager call runs atomically from one await of a provider operation to  *)
(* the next; every such segment is one action.  Each caller (task) has a   *)
(* frame holding the locals of the call it is in.                          *)
(***************************************************************************)
EXTENDS Integers, Sequences, FiniteSets, TLC

VARIABLES
    provider_configs,   \* self.provider_configs : sequence of [name, cfg] (dict, insertion order)
    provider_priority,  \* self.provider_priority: sequence of names
    providers,          \* self.providers        : sequence of provider objects (dict, insertion order)
    initialized,        \* self.initialized
    cleanups,           \* number of cleanup() calls begun so far (observer, bounds the run)
    lastOp,             \* the manager call completed last, if it changes the state (observer)
    calls,              \* per task: the frame of the manager call it is executing
    unit                \* a provider-level operation applied on its own: its input and result

vars == <<provider_configs, provider_priority, providers, initialized,
          cleanups, lastOp, calls, unit>>

managerVars == <<provider_configs, provider_priority, providers, initialized,
                 cleanups, lastOp, calls>>

-----------------------------------------------------------------------------
(* Bounds of the model *)

\* most entries of an AI_PROVIDER_PRIORITY string the settings carry
MaxPrioNames == 2
\* number of cleanup() calls in one run
MaxCleanups == 1
\* most pieces a credential under study is put together from
MaxKeyParts == 3
\* largest prompt or completion token count a vendor reports
MaxTokens == 1

-----------------------------------------------------------------------------
(* Strings.  A string is a sequence of tokens; a token is one character or *)
(* one whole word that is never split (a provider name).                  *)

Chr_your == <<"y", "o", "u", "r", "-">>
Chr_none == <<"n", "o", "n", "e">>

\* Python's None where a string is expected ("None" is a reserved token)
None == <<"None">>

\* str.startswith
StartsWith(s, p) == Len(s) >= Len(p) /\ SubSeq(s, 1, Len(p)) = p

RECURSIVE LStrip(_)
LStrip(s) == IF s # <<>> /\ Head(s) = " " THEN LStrip(Tail(s)) ELSE s

RECURSIVE RStrip(_)
RStrip(s) == IF s # <<>> /\ s[Len(s)] = " " THEN RStrip(SubSeq(s, 1, Len(s) - 1)) ELSE s

\* str.strip
Strip(s) == RStrip(LStrip(s))

-----------------------------------------------------------------------------
(* Provider identities and configuration *)

\* AIProviderType: the identities the model covers, in the order in which
\* configure_from_env inserts them into the configuration dict.  openai and
\* anthropic stand for the five hosted variants, which the manager treats
\* alike; ollama is the variant that overrides is_available.
ConfigOrder == <<"openai", "anthropic", "ollama">>

Identities == {ConfigOrder[i] : i \in 1..Len(ConfigOrder)}

\* ProviderConfig (the fields the manager reads); enabled defaults to True
ProviderConfig(ptype, key) == [provider_type |-> ptype, api_key |-> key, enabled |-> TRUE]

\* (faulty variant: the placeholder and sentinel tests look at the stripped
\* credential)
is_configured_stripped(cfg) ==
    /\ cfg.api_key # None
    /\ Strip(cfg.api_key) # <<>>
    /\ ~StartsWith(Strip(cfg.api_key), Chr_your)
    /\ Strip(cfg.api_key) # Chr_none
    /\ cfg.enabled

\* ProviderConfig.is_configured
is_configured(cfg) ==
    /\ cfg.api_key # None
    /\ cfg.api_key # <<>>
    /\ Strip(cfg.api_key) # <<>>
    /\ ~StartsWith(cfg.api_key, Chr_your)
    /\ cfg.api_key # Chr_none
    /\ cfg.enabled

\* AIProvider.is_available of the base class
base_is_available(p) ==
    /\ p.api_key # None
    /\ p.api_key # <<>>
    /\ Strip(p.api_key) # <<>>
    /\ ~StartsWith(p.api_key, Chr_your)
    /\ p.api_key # Chr_none

\* OllamaProvider.is_available
ollama_is_available(p) == TRUE

\* provider.is_available(), dispatched on the provider class
is_available(p) ==
    IF p.name = "ollama" THEN ollama_is_available(p) ELSE base_is_available(p)

-----------------------------------------------------------------------------
(* Settings and configure_from_env *)

\* str.split(','): the pieces between the commas, at least one piece
RECURSIVE Split(_, _)
Split(s, piece) ==
    IF s = <<>> THEN <<piece>>
    ELSE IF Head(s) = "," THEN <<piece>> \o Split(Tail(s), <<>>)
    ELSE Split(Tail(s), Append(piece, Head(s)))

\* [p.strip() for p in priority_str.split(',')]
ParsePriority(str) ==
    LET pieces == Split(str, <<>>)
    IN  [i \in 1..Len(pieces) |-> Strip(pieces[i])]

\* the default of getattr(settings, 'AI_PROVIDER_PRIORITY', ...)
DefaultPriorityStr ==
    <<"anthropic", ",", "openai", ",", "google", ",", "openrouter", ",",
      "xai", ",", "ollama">>

\* The AI_PROVIDER_PRIORITY strings the settings may carry: up to
\* MaxPrioNames entries joined by commas.  An entry is one of two provider
\* names, one of them padded with blanks; the default string names them all.
PrioEntries == {<<"openai">>, <<" ", "ollama", " ">>}

RECURSIVE JoinedUpTo(_)
JoinedUpTo(n) ==
    IF n = 0 THEN {<<>>}
    ELSE LET shorter == JoinedUpTo(n - 1)
         IN  shorter \cup PrioEntries
                \cup {s \o <<",">> \o e : s \in shorter \ {<<>>}, e \in PrioEntries}

PriorityStrings == JoinedUpTo(MaxPrioNames)

\* a settings object without the attribute asked for
NoAttr == <<"NoAttr">>
\* a settings object without OLLAMA_MODEL
NoModel == <<"NoModel">>

\* What a settings object may say about one provider: the value of its
\* <NAME>_API_KEY attribute or NoAttr; for ollama NoModel when OLLAMA_MODEL
\* is missing.  The values are the defaults of config/settings.py (None,
\* "none"), a placeholder and a real key.
SettingValues(name) ==
    CASE name = "openai"    -> {Chr_your \o <<"k">>, <<"s", "k">>}
      [] name = "anthropic" -> {None, <<"s", "k">>}
      [] name = "ollama"    -> {NoModel, NoAttr, <<"s", "k">>}

\* The settings objects
SettingsObjects ==
    {s \in [key : [Identities -> UNION {SettingValues(n) : n \in Identities}],
            priority : PriorityStrings \cup {NoAttr}] :
        \A n \in Identities : s.key[n] \in SettingValues(n)}

\* configs built by configure_from_env, in the order of the if-statements
RECURSIVE BuildConfigs(_, _)
BuildConfigs(settings, i) ==
    IF i > Len(ConfigOrder) THEN <<>>
    ELSE LET name == ConfigOrder[i]
             value == settings.key[name]
             rest == BuildConfigs(settings, i + 1)
         IN  IF name = "ollama"
             THEN IF value # NoModel
                  THEN <<[name |-> name,
                          cfg |-> ProviderConfig(name,
                                     IF value = NoAttr THEN Chr_none ELSE value)]>> \o rest
                  ELSE rest
             ELSE IF value # NoAttr
                  THEN <<[name |-> name, cfg |-> ProviderConfig(name, value)]>> \o rest
                  ELSE rest

\* the priority string configure_from_env reads
PriorityStr(settings) ==
    IF settings.priority = NoAttr THEN DefaultPriorityStr ELSE settings.priority

-----------------------------------------------------------------------------
(* Dict helpers *)

Names(seq) == {seq[i].name : i \in 1..Len(seq)}
NameSeq(seq) == [i \in 1..Len(seq) |-> seq[i].name]
Lookup(seq, n) == seq[CHOOSE i \in 1..Len(seq) : seq[i].name = n]

\* d[name] = value: an existing key keeps its position
Put(seq, entry) ==
    IF entry.name \in Names(seq)
    THEN [i \in 1..Len(seq) |-> IF seq[i].name = entry.name THEN entry ELSE seq[i]]
    ELSE Append(seq, entry)

InSeq(x, seq) == \E i \in 1..Len(seq) : seq[i] = x

-----------------------------------------------------------------------------
(* Values exchanged with the providers *)

\* no name: preferred_provider None (or '', equally falsy)
NoName == ""

\* AIProviderError(message, provider, error_code); the message is a text
\* that tells who failed and how
ProviderError(msg, provider, code) == [msg |-> msg, provider |-> provider, error_code |-> code]

\* last_error = None
NoError == ProviderError(<<>>, "", "")

\* str(e); str(None) is "None"
ErrStr(e) == IF e = NoError THEN None ELSE e.msg

\* AIResponse as returned by the provider object p
AIResponse(p) == [content |-> "text", provider |-> p.name, id |-> p.id]
NoResponse == [content |-> "", provider |-> "", id |-> <<>>]

\* error kinds a provider's generate_text reports in the model: the kind
\* the manager singles out and one of the others
AttemptErrorKinds == {"auth_error", "rate_limit"}

\* how the await of provider.generate_text can end
AttemptOutcomes == {"ok", "exception"} \cup AttemptErrorKinds

\* how the await of provider.initialize and provider.cleanup can end
AwaitOutcomes == {"ok", "raise"}

\* how the await of provider.health_check can end
HealthOutcomes == {"true", "false", "raise"}

\* the error provider p raises for the outcome
RaisedBy(p, outcome) ==
    IF outcome = "exception"
    THEN ProviderError(<<p.name, "exception">>, "", "exception")
    ELSE ProviderError(<<p.name, outcome>>, p.name, outcome)

\* preferred_provider arguments of generate_text
PreferredArgs == {NoName, "anthropic", "ollama", "google"}

\* the provider object constructed from a configuration entry; id tells the
\* objects of one name apart: the task that constructed it and the number
\* of cleanup() calls begun before
NewProvider(entry, id) == [name |-> entry.name, id |-> id, api_key |-> entry.cfg.api_key]
NoProvider == [name |-> "", id |-> <<>>, api_key |-> <<>>]

-----------------------------------------------------------------------------
(* Frames *)

Tasks == {"t1", "t2"}

NoResult ==
    [kind |-> "none", response |-> NoResponse, error |-> NoError, list |-> <<>>,
     name |-> NoName, status |-> <<>>]
Returned == [NoResult EXCEPT !.kind = "return"]
ReturnResponse(r) == [NoResult EXCEPT !.kind = "return", !.response = r]
ReturnList(l) == [NoResult EXCEPT !.kind = "return", !.list = l]
Raise(e) == [NoResult EXCEPT !.kind = "raise", !.error = e]
\* Optional[str]: a provider name, or NoName for None
ReturnName(n) == [NoResult EXCEPT !.kind = "return", !.name = n]
\* Dict[str, ProviderStatus]
ReturnStatus(d) == [NoResult EXCEPT !.kind = "return", !.status = d]

Idle ==
    [op |-> "idle", pc |-> "idle",
     preferred |-> NoName,         \* argument of generate_text
     cfgs |-> <<>>, idx |-> 0,     \* initialize/cleanup: the dict iterated and the position in it
     cur |-> NoProvider,           \* initialize: the provider being initialized
     order |-> <<>>, pos |-> 0,    \* generate_text: provider_order and the position in it
     last_error |-> NoError,       \* generate_text: last_error
     status |-> <<>>,              \* get_provider_status: status
     result |-> NoResult,          \* what the call returned or raised
     \* what an observer of the call sees
     was_initialized |-> FALSE,    \* self.initialized when the call began
     live0 |-> <<>>,               \* self.providers when the call began
     live |-> <<>>,                \* self.providers once initialization was ensured
     built |-> <<>>,               \* names of the providers constructed by the call
     inited |-> <<>>,              \* names of the providers whose initialize() it called
     probes |-> <<>>,              \* the health_check() calls it made and how they ended
     cleanup_failed |-> {},        \* names of the providers whose cleanup() raised
     init_failed |-> {},           \* names of the providers whose initialize() raised
     attempts |-> <<>>,            \* providers whose generate_text it called
     outcome |-> "",               \* how the latest of those calls ended
     cleaned |-> <<>>]             \* providers whose cleanup() it called

Begin(op) ==
    [Idle EXCEPT !.op = op, !.was_initialized = initialized, !.live0 = providers]

Done(f, result) == [f EXCEPT !.pc = "done", !.result = result]

-----------------------------------------------------------------------------
(* AIProviderManager: the decisions of its methods *)

\* (faulty variant: the guard is missing)
InitializeReturnsAtOnce_never(flag) == FALSE

\* initialize: "if self.initialized: return"
InitializeReturnsAtOnce(flag) == flag

\* the other methods: "if not self.initialized: await self.initialize()"
CallsInitialize(flag) == ~flag

\* (faulty variant: is_configured() is not asked)
ShouldConstruct_always(cfg) == TRUE

\* initialize: a configuration entry is passed over unless is_configured()
ShouldConstruct(cfg) == is_configured(cfg)

\* (faulty variant: the priority list is ignored)
AvailableList_dictorder(prio, provs) == NameSeq(provs)

\* get_available_providers: the live names of the priority list in its
\* order, then the live names not yet in the result in dict order
AvailableList(prio, provs) ==
    LET listed == SelectSeq(prio, LAMBDA s : \E n \in Names(provs) : s = <<n>>)
        first == [i \in 1..Len(listed) |-> listed[i][1]]
        rest == SelectSeq(NameSeq(provs), LAMBDA n : ~InSeq(n, first))
    IN  first \o rest

RECURSIVE AppendNew(_, _)
AppendNew(acc, list) ==
    IF list = <<>> THEN acc
    ELSE IF InSeq(Head(list), acc) THEN AppendNew(acc, Tail(list))
    ELSE AppendNew(Append(acc, Head(list)), Tail(list))

\* (faulty variant: the preferred provider is not put first)
ProviderOrder_nopreferred(preferred, prio, provs) ==
    AppendNew(<<>>, AvailableList(prio, provs))

\* generate_text: provider_order
ProviderOrder(preferred, prio, provs) ==
    LET start == IF preferred # NoName /\ preferred \in Names(provs)
                 THEN <<preferred>> ELSE <<>>
    IN  AppendNew(start, AvailableList(prio, provs))

\* (faulty variant: the check is missing)
NoProviders_never(provs) == FALSE

\* generate_text: "if not self.providers"
NoProviders(provs) == provs = <<>>

\* (faulty variant: a success does not end the loop)
EndsLoop_never(outcome) == FALSE

\* generate_text: the outcome of an attempt that ends the loop with a return
EndsLoop(outcome) == outcome = "ok"

\* (faulty variant: break instead of continue after an auth_error)
GoesOnAfter_break(outcome) == outcome # "auth_error"

\* generate_text: after a failed attempt each except-branch runs into the
\* next iteration of the loop, whatever was raised
GoesOnAfter(outcome) == TRUE

\* generate_text: what the call returns when provider p's attempt succeeded
SuccessResult(p) == ReturnResponse(AIResponse(p))

\* (faulty variant: only the first error is kept)
RecordError_first(last, p, outcome) ==
    IF last # NoError THEN last
    ELSE IF outcome = "exception"
    THEN ProviderError(ErrStr(RaisedBy(p, outcome)), p.name, "unknown_error")
    ELSE RaisedBy(p, outcome)

\* generate_text: last_error after provider p's attempt failed with outcome
RecordError(last, p, outcome) ==
    IF outcome = "exception"
    THEN ProviderError(ErrStr(RaisedBy(p, outcome)), p.name, "unknown_error")
    ELSE RaisedBy(p, outcome)

\* (faulty variant: the last provider's error is raised again)
AllFailed_reraise(last) == last

\* generate_text: the error raised when the providers are exhausted
AllFailed(last) ==
    ProviderError(<<"All AI providers failed. Last error: ", ErrStr(last)>>,
                  "manager", "all_providers_failed")

\* generate_text: the error raised when no provider is live
NoProvidersError ==
    ProviderError(<<"No AI providers available">>, "manager", "no_providers")

\* (faulty variant: the map is not cleared)
Cleared_keep(provs) == provs

\* cleanup: self.providers.clear()
Cleared(provs) == <<>>

\* (faulty variant: an exception of provider.initialize() is not caught)
InitializeCatches_nothing(outcome) == outcome = "ok"

\* initialize: "except Exception" around the construction and the
\* initialize() of one provider; does it catch what the await raised
InitializeCatches(outcome) == TRUE

\* (faulty variant: a probe that raises ends the walk)
ProbeGoesOn_unlessraise(outcome) == outcome = "false"

\* get_preferred_provider: after a health_check() that was not truthy, or
\* that raised ("except Exception: continue"), the walk goes on
ProbeGoesOn(outcome) == outcome # "true"

\* ProviderStatus(name, available, healthy, last_error)
ProviderStatus(name, healthy, last_error) ==
    [name |-> name, available |-> TRUE, healthy |-> healthy, last_error |-> last_error]

\* (faulty variant: the exception of health_check() is not recorded)
StatusOf_silent(p, outcome) == ProviderStatus(p.name, outcome = "true", None)

\* get_provider_status: the entry made for provider p after its
\* health_check() returned or raised
StatusOf(p, outcome) ==
    IF outcome = "raise"
    THEN ProviderStatus(p.name, FALSE, ErrStr(RaisedBy(p, "exception")))
    ELSE ProviderStatus(p.name, outcome = "true", None)

\* a provider.health_check() call and how it ended ("": not yet)
Probe(p, outcome) == [name |-> p.name, id |-> p.id, outcome |-> outcome]

\* the last probe of the sequence ends with the outcome
EndProbe(probes, outcome) == [probes EXCEPT ![Len(probes)].outcome = outcome]

\* (faulty variant: the lazy initialize() is outside the try, as it is in
\* generate_text)
HealthCatches_call(where) == where = "call"

\* health_check: "except Exception" around the whole body; where is
\* "initialize" for the lazy initialize() and "call" for the vendor call
\* and the reading of its reply
HealthCatches(where) == TRUE

\* (faulty variant: self.initialized is set before the loop)
FlagInPass_early(flag) == TRUE

\* initialize: self.initialized while the loop over the configurations is
\* suspended; the flag is assigned after the loop only
FlagInPass(flag) == flag

\* (faulty variant: an exception of provider.cleanup() is not caught)
CleanupCatches_nothing(outcome) == outcome = "ok"

\* cleanup: "except Exception" around one provider.cleanup()
CleanupCatches(outcome) == TRUE

-----------------------------------------------------------------------------
(* AIProviderManager: the steps of its methods *)

\* no provider-level operation is under study
NoUnit == [fn |-> "none"]

TypeOK ==
    /\ initialized \in BOOLEAN
    /\ cleanups \in 0..MaxCleanups
    /\ DOMAIN calls = Tasks

\* AIProviderManager.__init__
ManagerInit ==
    /\ provider_configs = <<>>
    /\ provider_priority = <<>>
    /\ providers = <<>>
    /\ initialized = FALSE
    /\ cleanups = 0
    /\ lastOp = "__init__"
    /\ calls = [t \in Tasks |-> Idle]

Init ==
    /\ ManagerInit
    /\ unit = NoUnit

\* configure_from_env(settings): synchronous, one step
Configure(t, settings) ==
    /\ calls[t].pc = "idle"
    /\ provider_priority' = ParsePriority(PriorityStr(settings))
    /\ provider_configs' = BuildConfigs(settings, 1)
    /\ lastOp' = "configure_from_env"
    /\ UNCHANGED <<unit, providers, initialized, cleanups, calls>>

\* first entry at or after i that initialize constructs and finds available
RECURSIVE NextAwait(_, _)
NextAwait(cfgs, i) ==
    IF i > Len(cfgs) THEN i
    ELSE IF ShouldConstruct(cfgs[i].cfg) /\ is_available(NewProvider(cfgs[i], <<>>))
    THEN i
    ELSE NextAwait(cfgs, i + 1)

\* names of the entries in i..j that initialize constructs
ConstructedIn(cfgs, i, j) ==
    LET last == IF j > Len(cfgs) THEN Len(cfgs) ELSE j
        part == SelectSeq(SubSeq(cfgs, i, last), LAMBDA e : ShouldConstruct(e.cfg))
    IN  NameSeq(part)

\* generate_text, the for loop from position p of provider_order on: pass
\* over the names no longer live, call generate_text of the first live one
\* and await it, or raise all_providers_failed at the end of the list
GenLoop(t, f, provs, p) ==
    LET live == {q \in p..Len(f.order) : f.order[q] \in Names(provs)}
    IN  IF live = {}
        THEN calls' = [calls EXCEPT ![t] = Done(f, Raise(AllFailed(f.last_error)))]
        ELSE LET q == CHOOSE q \in live : \A r \in live : q <= r
                 prov == Lookup(provs, f.order[q])
             IN  calls' = [calls EXCEPT ![t] =
                            [f EXCEPT !.pc = "gen_await", !.pos = q,
                                      !.attempts = Append(@, prov)]]

\* get_preferred_provider, the for loop from position p of the priority
\* list on: pass over the names that are not live, call health_check of the
\* first live one and await it, or return None at the end of the list
PrefLoop(t, f, provs, p) ==
    LET prio == provider_priority
        live == {q \in p..Len(prio) : \E n \in Names(provs) : prio[q] = <<n>>}
    IN  IF live = {}
        THEN calls' = [calls EXCEPT ![t] = Done(f, ReturnName(NoName))]
        ELSE LET q == CHOOSE q \in live : \A r \in live : q <= r
                 prov == Lookup(provs, prio[q][1])
             IN  calls' = [calls EXCEPT ![t] =
                            [f EXCEPT !.pc = "pref_await", !.pos = q, !.cur = prov,
                                      !.probes = Append(@, Probe(prov, ""))]]

\* the iterator of a dict raises RuntimeError ("dictionary changed size
\* during iteration") when it is advanced and the dict has not the number
\* of keys it had when the iteration began
DictChanged(seen, provs) == Len(seen) # Len(provs)
IterationError ==
    ProviderError(<<"dictionary changed size during iteration">>, "", "RuntimeError")

\* get_provider_status, the for loop from position i of
\* self.providers.items() on
StatusLoop(t, f, provs, i) ==
    IF DictChanged(f.live, provs)
    THEN calls' = [calls EXCEPT ![t] = Done(f, Raise(IterationError))]
    ELSE IF i <= Len(provs)
    THEN calls' = [calls EXCEPT ![t] =
                    [f EXCEPT !.pc = "status_await", !.idx = i, !.cur = provs[i],
                              !.probes = Append(@, Probe(provs[i], ""))]]
    ELSE calls' = [calls EXCEPT ![t] = Done(f, ReturnStatus(f.status))]

\* the rest of a method once "if not self.initialized: await self.initialize()"
\* is behind it, up to its first await or its end; provs is self.providers
Ensured(t, f0, provs) ==
    LET f == [f0 EXCEPT !.live = provs]
    IN  CASE f.op = "initialize" ->
                calls' = [calls EXCEPT ![t] = Done(f, Returned)]
          [] f.op = "get_available_providers" ->
                calls' = [calls EXCEPT ![t] =
                            Done(f, ReturnList(AvailableList(provider_priority, provs)))]
          [] f.op = "get_preferred_provider" -> PrefLoop(t, f, provs, 1)
          [] f.op = "get_provider_status" -> StatusLoop(t, f, provs, 1)
          [] f.op = "generate_text" ->
                IF NoProviders(provs)
                THEN calls' = [calls EXCEPT ![t] = Done(f, Raise(NoProvidersError))]
                ELSE GenLoop(t, [f EXCEPT !.order =
                                     ProviderOrder(f.preferred, provider_priority, provs)],
                             provs, 1)

\* initialize, the for loop from entry i of the configuration dict on: up
\* to the next await of a provider's initialize(), or to the end of the
\* method and on into the calling method
InitLoop(t, f, provs, i) ==
    LET j == NextAwait(f.cfgs, i)
        names == ConstructedIn(f.cfgs, i, j)
        g == [f EXCEPT !.built = @ \o names]
    IN  /\ providers' = provs
        /\ IF j <= Len(f.cfgs)
           THEN /\ calls' = [calls EXCEPT ![t] =
                              [g EXCEPT !.pc = "init_await", !.idx = j,
                                        !.cur = NewProvider(f.cfgs[j], <<t, cleanups>>),
                                        !.inited = Append(@, f.cfgs[j].name)]]
                /\ initialized' = FlagInPass(initialized)
           ELSE /\ initialized' = TRUE
                /\ Ensured(t, g, provs)

\* a call of initialize, get_available_providers or generate_text begins
Call(t, op, preferred) ==
    /\ calls[t].pc = "idle"
    /\ LET f == [Begin(op) EXCEPT !.preferred = preferred]
       IN  IF \/ op # "initialize" /\ ~CallsInitialize(initialized)
              \/ InitializeReturnsAtOnce(initialized)
           THEN /\ Ensured(t, f, providers)
                /\ UNCHANGED <<providers, initialized>>
           ELSE InitLoop(t, [f EXCEPT !.cfgs = provider_configs], providers, 1)
    /\ UNCHANGED <<unit, provider_configs, provider_priority, cleanups, lastOp>>

\* the await of provider.initialize() in initialize ends
InitResume(t, outcome) ==
    /\ calls[t].pc = "init_await"
    /\ LET f == calls[t]
           failed == [f EXCEPT !.cur = NoProvider, !.init_failed = @ \cup {f.cur.name}]
       IN  IF outcome = "ok"
           THEN InitLoop(t, [f EXCEPT !.cur = NoProvider], Put(providers, f.cur), f.idx + 1)
           ELSE IF InitializeCatches(outcome)
           THEN InitLoop(t, failed, providers, f.idx + 1)
           ELSE /\ calls' = [calls EXCEPT ![t] = Done(failed, Raise(RaisedBy(f.cur, outcome)))]
                /\ UNCHANGED <<providers, initialized>>
    /\ UNCHANGED <<unit, provider_configs, provider_priority, cleanups, lastOp>>

\* the await of provider.generate_text() in generate_text ends
GenResume(t, outcome) ==
    /\ calls[t].pc = "gen_await"
    /\ LET f == [calls[t] EXCEPT !.outcome = outcome]
           prov == f.attempts[Len(f.attempts)]
       IN  IF EndsLoop(outcome)
           THEN calls' = [calls EXCEPT ![t] = Done(f, SuccessResult(prov))]
           ELSE GenLoop(t, [f EXCEPT !.last_error = RecordError(@, prov, outcome)],
                        providers,
                        IF GoesOnAfter(outcome) THEN f.pos + 1 ELSE Len(f.order) + 1)
    /\ UNCHANGED <<unit, provider_configs, provider_priority, providers, initialized,
                   cleanups, lastOp>>

\* the await of provider.health_check() in get_preferred_provider ends
PrefResume(t, outcome) ==
    /\ calls[t].pc = "pref_await"
    /\ LET f == [calls[t] EXCEPT !.probes = EndProbe(@, outcome), !.cur = NoProvider]
       IN  IF ProbeGoesOn(outcome)
           THEN PrefLoop(t, f, providers, f.pos + 1)
           ELSE calls' = [calls EXCEPT ![t] =
                            Done(f, IF outcome = "raise"
                                    THEN Raise(RaisedBy(calls[t].cur, "exception"))
                                    ELSE ReturnName(calls[t].cur.name))]
    /\ UNCHANGED <<unit, provider_configs, provider_priority, providers, initialized,
                   cleanups, lastOp>>

\* the await of provider.health_check() in get_provider_status ends
StatusResume(t, outcome) ==
    /\ calls[t].pc = "status_await"
    /\ LET f == [calls[t] EXCEPT !.probes = EndProbe(@, outcome), !.cur = NoProvider,
                                 !.status = Put(@, StatusOf(calls[t].cur, outcome))]
       IN  StatusLoop(t, f, providers, f.idx + 1)
    /\ UNCHANGED <<unit, provider_configs, provider_priority, providers, initialized,
                   cleanups, lastOp>>

\* cleanup, the for loop from position i of self.providers.values() on
CleanupLoop(t, f, i) ==
    IF DictChanged(f.live0, providers)
    THEN /\ calls' = [calls EXCEPT ![t] = Done(f, Raise(IterationError))]
         /\ UNCHANGED <<providers, initialized>>
    ELSE IF i <= Len(providers)
    THEN /\ calls' = [calls EXCEPT ![t] =
                        [f EXCEPT !.pc = "cleanup_await", !.idx = i,
                                  !.cleaned = Append(@, providers[i])]]
         /\ UNCHANGED <<providers, initialized>>
    ELSE /\ providers' = Cleared(providers)
         /\ initialized' = FALSE
         /\ calls' = [calls EXCEPT ![t] = Done(f, Returned)]

\* a call of cleanup begins
CallCleanup(t) ==
    /\ calls[t].pc = "idle"
    /\ cleanups < MaxCleanups
    /\ cleanups' = cleanups + 1
    /\ CleanupLoop(t, Begin("cleanup"), 1)
    /\ UNCHANGED <<unit, provider_configs, provider_priority, lastOp>>

\* the await of provider.cleanup() in cleanup ends; an exception is logged
CleanupResume(t, outcome) ==
    /\ calls[t].pc = "cleanup_await"
    /\ IF outcome = "ok"
       THEN CleanupLoop(t, calls[t], calls[t].idx + 1)
       ELSE IF CleanupCatches(outcome)
       THEN CleanupLoop(t, [calls[t] EXCEPT !.cleanup_failed =
                                                @ \cup {providers[calls[t].idx].name}],
                        calls[t].idx + 1)
       ELSE /\ calls' = [calls EXCEPT ![t] =
                           Done(calls[t], Raise(RaisedBy(providers[calls[t].idx], outcome)))]
            /\ UNCHANGED <<providers, initialized>>
    /\ UNCHANGED <<unit, provider_configs, provider_priority, cleanups, lastOp>>

\* the caller takes the result of the call
Return(t) ==
    /\ calls[t].pc = "done"
    /\ lastOp' = IF calls[t].op \in {"initialize", "cleanup"} THEN calls[t].op ELSE "other"
    /\ calls' = [calls EXCEPT ![t] = Idle]
    /\ UNCHANGED <<unit, provider_configs, provider_priority, providers, initialized,
                   cleanups>>

Step(t) ==
    \/ \E settings \in SettingsObjects : Configure(t, settings)
    \/ Call(t, "initialize", NoName)
    \/ Call(t, "get_available_providers", NoName)
    \/ \E preferred \in PreferredArgs : Call(t, "generate_text", preferred)
    \/ \E outcome \in AwaitOutcomes : InitResume(t, outcome)
    \/ \E outcome \in AttemptOutcomes : GenResume(t, outcome)
    \/ Call(t, "get_preferred_provider", NoName)
    \/ \E outcome \in HealthOutcomes : PrefResume(t, outcome)
    \/ Call(t, "get_provider_status", NoName)
    \/ \E outcome \in HealthOutcomes : StatusResume(t, outcome)
    \/ CallCleanup(t)
    \/ \E outcome \in AwaitOutcomes : CleanupResume(t, outcome)
    \/ Return(t)

\* one caller: every manager call is awaited before the next begins
Next == Step("t1")

Spec == Init /\ [][Next]_vars

-----------------------------------------------------------------------------
(* Request handling by several callers.  The manager is configured and     *)
(* initialized once by one caller before any request is admitted; then     *)
(* the callers run generate_text, get_available_providers,                 *)
(* get_preferred_provider and get_provider_status, interleaved at the      *)
(* awaits of the provider calls.                                           *)

\* the settings of the manager that serves the requests: credentials for
\* openai and anthropic, none for ollama; the default priority string or
\* one that names openai only
TrafficSettings ==
    {s \in SettingsObjects :
        /\ s.key["openai"] = <<"s", "k">>
        /\ s.key["anthropic"] = <<"s", "k">>
        /\ s.key["ollama"] = NoModel
        /\ s.priority \in {NoAttr, <<"openai">>}}

\* application startup: configure_from_env, then initialize()
Startup(t) ==
    \/ lastOp = "__init__" /\ \E settings \in TrafficSettings : Configure(t, settings)
    \/ lastOp = "configure_from_env" /\ ~initialized /\ Call(t, "initialize", NoName)
    \/ \E outcome \in AwaitOutcomes : InitResume(t, outcome)

\* the steps of a caller's requests
Traffic(t) ==
    /\ initialized
    /\ \/ \E preferred \in PreferredArgs : Call(t, "generate_text", preferred)
       \/ \E outcome \in AttemptOutcomes : GenResume(t, outcome)
       \/ Call(t, "get_available_providers", NoName)
       \/ Call(t, "get_preferred_provider", NoName)
       \/ \E outcome \in HealthOutcomes : PrefResume(t, outcome)
       \/ Call(t, "get_provider_status", NoName)
       \/ \E outcome \in HealthOutcomes : StatusResume(t, outcome)
       \/ Return(t)

TrafficNext == Startup("t1") \/ Traffic("t1") \/ Traffic("t2")

TrafficSpec == Init /\ [][TrafficNext]_vars

-----------------------------------------------------------------------------
(* Callers of a manager that nobody initialized.  The manager is           *)
(* configured once; then the callers run its methods, initialize() and     *)
(* cleanup() among them, with no order between them: the steps of the two  *)
(* callers interleave at the awaits of the provider calls.                 *)

\* the settings of that manager: credentials for openai and anthropic, none
\* for ollama, the default priority string
RaceSettings == {s \in TrafficSettings : s.priority = NoAttr}

\* a caller of the methods that ensure initialization
Request(t) ==
    /\ lastOp # "__init__"
    /\ \/ Call(t, "initialize", NoName)
       \/ \E outcome \in AwaitOutcomes : InitResume(t, outcome)
       \/ \E preferred \in {NoName, "anthropic"} : Call(t, "generate_text", preferred)
       \/ \E outcome \in AttemptOutcomes : GenResume(t, outcome)
       \/ Call(t, "get_available_providers", NoName)
       \/ Call(t, "get_preferred_provider", NoName)
       \/ \E outcome \in HealthOutcomes : PrefResume(t, outcome)
       \/ Call(t, "get_provider_status", NoName)
       \/ \E outcome \in HealthOutcomes : StatusResume(t, outcome)
       \/ Return(t)

\* a caller of initialize() and cleanup()
Lifecycle(t) ==
    /\ lastOp # "__init__"
    /\ \/ Call(t, "initialize", NoName)
       \/ \E outcome \in AwaitOutcomes : InitResume(t, outcome)
       \/ CallCleanup(t)
       \/ \E outcome \in AwaitOutcomes : CleanupResume(t, outcome)
       \/ Return(t)

RaceNext ==
    \/ lastOp = "__init__" /\ \E settings \in RaceSettings : Configure("t1", settings)
    \/ Request("t1")
    \/ Lifecycle("t2")

RaceSpec == Init /\ [][RaceNext]_vars

-----------------------------------------------------------------------------
(* ProviderConfig.is_configured on its own: a config is built from a       *)
(* credential and an enabled flag, and the predicate is applied to it.     *)

\* the pieces the credentials are put together from: whitespace, the
\* placeholder prefix, the sentinel and an ordinary character
KeyParts == {<<" ">>, Chr_your, Chr_none, <<"k">>}

RECURSIVE KeysUpTo(_)
KeysUpTo(n) ==
    IF n = 0 THEN {<<>>}
    ELSE LET shorter == KeysUpTo(n - 1)
         IN  shorter \cup {k \o part : k \in shorter, part \in KeyParts}

\* api_key: Optional[str]
Credentials == {None} \cup KeysUpTo(MaxKeyParts)

ConfigInit ==
    /\ ManagerInit
    /\ \E key \in Credentials, enabled \in BOOLEAN :
          unit = [fn |-> "is_configured",
                  cfg |-> [ProviderConfig("openai", key) EXCEPT !.enabled = enabled],
                  called |-> FALSE, result |-> FALSE]

\* config.is_configured() is called
CallIsConfigured ==
    /\ unit.fn = "is_configured"
    /\ ~unit.called
    /\ unit' = [unit EXCEPT !.called = TRUE, !.result = is_configured(unit.cfg)]
    /\ UNCHANGED managerVars

ConfigNext == CallIsConfigured

ConfigSpec == ConfigInit /\ [][ConfigNext]_vars

-----------------------------------------------------------------------------
(* The provider classes on their own: one call of health_check or of       *)
(* generate_text on a provider of some class, with or without a client,    *)
(* the vendor answering in every way the code distinguishes.               *)

\* AIProviderType
Variants == {"openai", "anthropic", "google", "openrouter", "xai", "ollama"}

\* What the awaited vendor call of health_check does:
\*   raise      the call raises (no connection, rejected key, time-out)
\*   status     raise_for_status() raises (httpx)
\*   badjson    response.json() raises (httpx)
\*   nokey      the body has no "choices" / no "models"
\*   empty      no choice, no content block, no candidate
\*   malformed  the first choice has no message, a model entry has no name
\*   blank      the text is empty or None
\*   text       there is text
\*   unlisted, listed   the provider's model is (not) among the models
HealthReplies(variant) ==
    CASE variant \in {"openai", "anthropic", "google"} ->
            {"raise", "empty", "blank", "text"}
      [] variant \in {"openrouter", "xai"} ->
            {"raise", "status", "badjson", "nokey", "empty", "malformed", "blank", "text"}
      [] variant = "ollama" ->
            {"raise", "status", "badjson", "nokey", "malformed", "unlisted", "listed"}

\* the vendor call of health_check and the expression it returns:
\* "true", "false", or "raise" when evaluating it raises
HealthValue(variant, reply) ==
    CASE reply \in {"raise", "status", "badjson", "malformed"} -> "raise"
      [] reply \in {"text", "listed"} -> "true"
      [] reply \in {"blank", "unlisted", "nokey"} -> "false"
      [] reply = "empty" ->
            \* response.choices[0] and response.text raise; "response.content
            \* and ..." and 'data.get("choices") and ...' are falsy
            IF variant \in {"openai", "google"} THEN "raise" ELSE "false"

\* a dict without keys
EmptyDict == [k \in {} |-> 0]

NoOutcome ==
    [kind |-> "none", value |-> FALSE, usage |-> EmptyDict, provider |-> "", code |-> ""]
ReturnBool(b) == [NoOutcome EXCEPT !.kind = "return", !.value = b]
\* an exception that is no AIProviderError leaves the method
RaiseUp == [NoOutcome EXCEPT !.kind = "raise"]
\* AIProviderError(message, provider, error_code) leaves the method;
\* error_code defaults to None
NoCode == "None"
RaiseError(provider, code) ==
    [NoOutcome EXCEPT !.kind = "raise", !.provider = provider, !.code = code]
\* an AIResponse (its usage dict)
ReturnUsage(u) == [NoOutcome EXCEPT !.kind = "return", !.usage = u]

\* Usage data in the reply of a generation call.  given: the reply has a
\* usage object (usage, usage_metadata, the "usage" key); a count that the
\* object lacks is Absent.  Ollama has no usage object: its two counts are
\* keys of the body itself.
Absent == -1
Usage(given, prompt, completion, total) ==
    [given |-> given, prompt |-> prompt, completion |-> completion, total |-> total]
NoPayload == Usage(FALSE, Absent, Absent, Absent)

Counts == 0..MaxTokens
Totals == 0..(2 * MaxTokens)

UsagePayloads(variant) ==
    CASE variant \in {"openai", "google"} ->
            {NoPayload} \cup {Usage(TRUE, p, c, t) : p \in Counts, c \in Counts, t \in Totals}
      [] variant = "anthropic" ->
            {NoPayload} \cup {Usage(TRUE, p, c, Absent) : p \in Counts, c \in Counts}
      [] variant \in {"openrouter", "xai"} ->
            {NoPayload} \cup {Usage(TRUE, p, c, t) : p \in Counts \cup {Absent},
                                                     c \in Counts \cup {Absent},
                                                     t \in Totals \cup {Absent}}
      [] variant = "ollama" ->
            {Usage(p # Absent \/ c # Absent, p, c, Absent) :
                p \in Counts \cup {Absent}, c \in Counts \cup {Absent}}

\* dict.get(key, 0)
GetOr0(count) == IF count = Absent THEN 0 ELSE count

UsageDict(p, c, t) == [prompt_tokens |-> p, completion_tokens |-> c, total_tokens |-> t]

\* the usage dict each class builds for its AIResponse
UsageOf(variant, u) ==
    CASE variant = "openai" ->
            IF u.given THEN UsageDict(u.prompt, u.completion, u.total)
            ELSE UsageDict(0, 0, 0)
      [] variant = "anthropic" ->
            IF u.given THEN UsageDict(u.prompt, u.completion, u.prompt + u.completion)
            ELSE UsageDict(0, 0, 0)
      [] variant = "google" ->
            IF u.given THEN UsageDict(u.prompt, u.completion, u.total)
            ELSE EmptyDict
      [] variant \in {"openrouter", "xai"} ->
            UsageDict(GetOr0(u.prompt), GetOr0(u.completion), GetOr0(u.total))
      [] variant = "ollama" ->
            UsageDict(GetOr0(u.prompt), GetOr0(u.completion),
                      GetOr0(u.prompt) + GetOr0(u.completion))

\* a call of fn on a provider whose _client is set or not
ProviderCall(fn, variant, client) ==
    [fn |-> fn, variant |-> variant,
     client0 |-> client,     \* self._client is set when the call begins
     client |-> client,      \* self._client is set
     pc |-> "start",
     init |-> "none",        \* how the lazy initialize() ended, if called
     reply |-> "none",       \* what the vendor call did
     payload |-> NoPayload,  \* the usage data of the reply
     result |-> NoOutcome]

ProviderFns == {"health_check", "generate_text", "initialize"}

\* What the awaited vendor call of generate_text does: it returns a reply
\* with text, or an exception is raised inside the try block:
\*   AuthenticationError, RateLimitError, APIError   by the vendor's SDK
\*   msg_auth, msg_quota, msg_blocked   (Google) an exception whose message
\*              has "API_KEY_INVALID"/"authentication", "quota"/"rate limit",
\*              "blocked"
\*   HTTP401, HTTP429, HTTP404, HTTP500   HTTPStatusError of raise_for_status()
\*   ConnectError   by httpx
\*   errorbody  the status is fine and the body has an "error" key
\*   Exception  any other exception (time-out, body without choices, ...)
GenerateReplies(variant) ==
    CASE variant \in {"openai", "anthropic"} ->
            {"text", "AuthenticationError", "RateLimitError", "APIError", "Exception"}
      [] variant = "google" ->
            {"text", "msg_auth", "msg_quota", "msg_blocked", "Exception"}
      [] variant \in {"openrouter", "xai"} ->
            {"text", "HTTP401", "HTTP429", "HTTP500", "ConnectError", "errorbody", "Exception"}
      [] variant = "ollama" ->
            {"text", "HTTP404", "HTTP500", "ConnectError", "errorbody", "Exception"}

\* the exception raised inside the try block of generate_text: an "error"
\* key in the body makes the method raise AIProviderError(api_error) there
RaisedInTry(reply) == IF reply = "errorbody" THEN "AIProviderError" ELSE reply

\* the except clauses of generate_text, in their order: the error_code of
\* the AIProviderError raised for the exception exc
ErrorCode(variant, exc) ==
    CASE variant \in {"openai", "anthropic"} ->
            CASE exc = "AuthenticationError" -> "auth_error"
              [] exc = "RateLimitError" -> "rate_limit"
              [] exc = "APIError" -> "api_error"
              [] OTHER -> "unknown_error"
      [] variant = "google" ->
            CASE exc = "msg_auth" -> "auth_error"
              [] exc = "msg_quota" -> "rate_limit"
              [] exc = "msg_blocked" -> "content_filter"
              [] OTHER -> "unknown_error"
      [] variant \in {"openrouter", "xai"} ->
            CASE exc = "HTTP401" -> "auth_error"
              [] exc = "HTTP429" -> "rate_limit"
              [] exc \in {"HTTP404", "HTTP500"} -> "api_error"
              [] OTHER -> "unknown_error"
      [] variant = "ollama" ->
            CASE exc = "HTTP404" -> "model_not_found"
              [] exc \in {"HTTP401", "HTTP429", "HTTP500"} -> "api_error"
              [] exc = "ConnectError" -> "connection_error"
              [] OTHER -> "unknown_error"

ProviderInit ==
    /\ ManagerInit
    /\ \E fn \in ProviderFns, variant \in Variants, client \in BOOLEAN :
          unit = ProviderCall(fn, variant, client)

\* "if not self._client: await self.initialize()"
ProviderBegin ==
    /\ unit.pc = "start"
    /\ unit' = [unit EXCEPT !.pc = IF unit.fn # "initialize" /\ unit.client
                                   THEN "call_await" ELSE "init_await"]
    /\ UNCHANGED managerVars

\* the lazy initialize() ends
ProviderInitResume(outcome) ==
    /\ unit.pc = "init_await"
    /\ unit' = IF outcome = "ok"
               THEN IF unit.fn = "initialize"
                    THEN [unit EXCEPT !.pc = "done", !.client = TRUE, !.init = "ok",
                                      !.result = ReturnBool(TRUE)]
                    ELSE [unit EXCEPT !.pc = "call_await", !.client = TRUE, !.init = "ok"]
               ELSE [unit EXCEPT !.pc = "done", !.init = "raise",
                                 !.result = IF /\ unit.fn = "health_check"
                                               /\ HealthCatches("initialize")
                                            THEN ReturnBool(FALSE)
                                            ELSE RaiseError(unit.variant, NoCode)]
    /\ UNCHANGED managerVars

\* the vendor call of health_check ends
HealthResume(reply) ==
    /\ unit.fn = "health_check"
    /\ unit.pc = "call_await"
    /\ reply \in HealthReplies(unit.variant)
    /\ LET v == HealthValue(unit.variant, reply)
       IN  unit' = [unit EXCEPT !.pc = "done", !.reply = reply,
                                !.result = IF v # "raise" THEN ReturnBool(v = "true")
                                           ELSE IF HealthCatches("call")
                                           THEN ReturnBool(FALSE) ELSE RaiseUp]
    /\ UNCHANGED managerVars

\* the vendor call of generate_text ends: it raised, or the reply is read
\* and made into an AIResponse
GenerateResume(reply, u) ==
    /\ unit.fn = "generate_text"
    /\ unit.pc = "call_await"
    /\ reply \in GenerateReplies(unit.variant)
    /\ IF reply = "text" THEN u \in UsagePayloads(unit.variant) ELSE u = NoPayload
    /\ unit' = [unit EXCEPT !.pc = "done", !.reply = reply, !.payload = u,
                            !.result = IF reply = "text"
                                       THEN ReturnUsage(UsageOf(unit.variant, u))
                                       ELSE RaiseError(unit.variant,
                                               ErrorCode(unit.variant, RaisedInTry(reply)))]
    /\ UNCHANGED managerVars

AllUsagePayloads == UNION {UsagePayloads(variant) : variant \in Variants}

AllGenerateReplies == UNION {GenerateReplies(variant) : variant \in Variants}

AllHealthReplies == UNION {HealthReplies(variant) : variant \in Variants}

ProviderNext ==
    \/ ProviderBegin
    \/ \E outcome \in AwaitOutcomes : ProviderInitResume(outcome)
    \/ \E reply \in AllHealthReplies : HealthResume(reply)
    \/ \E reply \in AllGenerateReplies, u \in AllUsagePayloads : GenerateResume(reply, u)

ProviderSpec == ProviderInit /\ [][ProviderNext]_vars

-----------------------------------------------------------------------------
(* Properties of generate_text *)

\* a generate_text call that has reached the loop or its end
InGenerate(f) == f.op = "generate_text" /\ f.pc \in {"gen_await", "done"}
GenerateDone(f) == f.op = "generate_text" /\ f.pc = "done"

\* the provider whose generate_text was called last
LastAttempted(f) == f.attempts[Len(f.attempts)]

\* position of the first entry of the priority list that names n (0: none)
PrioIndex(n) ==
    LET at == {i \in 1..Len(provider_priority) : provider_priority[i] = <<n>>}
    IN  IF at = {} THEN 0 ELSE CHOOSE i \in at : \A j \in at : i <= j

\* position of the attempt on the provider named n (0: not attempted)
AttemptIndex(f, n) ==
    LET at == {i \in 1..Len(f.attempts) : f.attempts[i].name = n}
    IN  IF at = {} THEN 0 ELSE CHOOSE i \in at : \A j \in at : i <= j

\* x and y are both in the priority list, x before y (first entries)
PrecedesInPriority(x, y) ==
    /\ PrioIndex(x) > 0 /\ PrioIndex(x) < PrioIndex(y)

\* C1: first success wins.  As soon as a provider's generate_text succeeds
\* the call is over: it returns the response of that provider as the
\* provider gave it, the providers attempted are the ones that come before
\* it in the trial order, each once, and none that comes later was invoked.
C1_FirstSuccessWins ==
    \A t \in Tasks :
        LET f == calls[t]
        IN  (f.op = "generate_text" /\ f.outcome = "ok") =>
                /\ f.pc = "done"
                /\ f.result = ReturnResponse(AIResponse(LastAttempted(f)))
                /\ LastAttempted(f) \in {f.live[i] : i \in 1..Len(f.live)}
                /\ NameSeq(f.attempts) = SubSeq(f.order, 1, Len(f.attempts))

\* a call that returned the second provider's response with a third one left untried
C1_Witness ==
    \E t \in Tasks :
        /\ GenerateDone(calls[t]) /\ calls[t].outcome = "ok"
        /\ Len(calls[t].attempts) = 2 /\ Len(calls[t].order) = 3

\* C2: without a live preferred provider the attempts follow the priority
\* list: if x and y are live, x comes before y in the priority list (by
\* their first entries) and y has been attempted, x was attempted earlier.
C2_PriorityOrder ==
    \A t \in Tasks :
        LET f == calls[t]
        IN  (InGenerate(f) /\ f.preferred \notin Names(f.live)) =>
                \A x \in Names(f.live), y \in Names(f.live) :
                    (PrecedesInPriority(x, y) /\ AttemptIndex(f, y) > 0) =>
                        (AttemptIndex(f, x) > 0 /\ AttemptIndex(f, x) < AttemptIndex(f, y))

\* two live providers attempted in priority order, against the dict order,
\* the preferred provider named but not live
C2_Witness ==
    \E t \in Tasks :
        /\ InGenerate(calls[t])
        /\ calls[t].preferred # NoName /\ calls[t].preferred \notin Names(calls[t].live)
        /\ NameSeq(calls[t].attempts) = <<"ollama", "openai">>
        /\ NameSeq(providers) = <<"openai", "ollama">>

\* C3: a live preferred provider is attempted first, wherever it is in the
\* priority list; it is attempted once, and the other live providers
\* follow in priority order.
C3_PreferredFirst ==
    \A t \in Tasks :
        LET f == calls[t]
        IN  (InGenerate(f) /\ f.preferred \in Names(f.live)) =>
                /\ f.attempts[1].name = f.preferred
                /\ \A i \in 1..Len(f.attempts), j \in 1..Len(f.attempts) :
                       f.attempts[i].name = f.attempts[j].name => i = j
                /\ \A x \in Names(f.live) \ {f.preferred}, y \in Names(f.live) \ {f.preferred} :
                       (PrecedesInPriority(x, y) /\ AttemptIndex(f, y) > 0) =>
                           (AttemptIndex(f, x) > 1 /\ AttemptIndex(f, x) < AttemptIndex(f, y))

\* the preferred provider is live and not in the priority list; all three
\* providers were attempted
C3_Witness ==
    \E t \in Tasks :
        /\ InGenerate(calls[t])
        /\ calls[t].preferred = "anthropic" /\ PrioIndex("anthropic") = 0
        /\ NameSeq(calls[t].attempts) = <<"anthropic", "ollama", "openai">>

\* C4: no failure ends the loop.  A call whose latest attempt failed is
\* over only when every provider of the trial order has been attempted,
\* and a call whose latest attempt succeeded returns that response however
\* the attempts before it failed.
C4_FailureContinues ==
    \A t \in Tasks :
        LET f == calls[t]
        IN  /\ (GenerateDone(f) /\ f.attempts # <<>> /\ f.outcome # "ok") =>
                   NameSeq(f.attempts) = f.order
            /\ (GenerateDone(f) /\ f.outcome = "ok") =>
                   f.result = ReturnResponse(AIResponse(LastAttempted(f)))

\* an auth_error of one provider followed by the success of the next
C4_Witness ==
    \E t \in Tasks :
        /\ GenerateDone(calls[t]) /\ calls[t].outcome = "ok"
        /\ calls[t].last_error.error_code = "auth_error"
        /\ calls[t].result.kind = "return"

\* C5: when every live provider has failed the call raises
\* all_providers_failed, and the message carries the text of the error of
\* the provider attempted last.
C5_AllFailed ==
    \A t \in Tasks :
        LET f == calls[t]
        IN  (GenerateDone(f) /\ f.attempts # <<>> /\ f.outcome # "ok") =>
                /\ f.result.kind = "raise"
                /\ f.result.error.error_code = "all_providers_failed"
                /\ f.result.error.msg[2] = RaisedBy(LastAttempted(f), f.outcome).msg
                /\ LastAttempted(f).name = f.order[Len(f.order)]

\* three providers failed, the last one differently from the one before
C5_Witness ==
    \E t \in Tasks :
        /\ GenerateDone(calls[t]) /\ calls[t].result.kind = "raise"
        /\ Len(calls[t].attempts) = 3
        /\ calls[t].outcome = "rate_limit"

\* C6: with no live provider once initialization is ensured the call
\* raises no_providers and calls generate_text on no provider (the manager's
\* generate_text has no call of health_check at all).
C6_NoProviders ==
    \A t \in Tasks :
        LET f == calls[t]
        IN  (GenerateDone(f) /\ f.live = <<>>) =>
                /\ f.result = Raise(NoProvidersError)
                /\ f.result.error.error_code = "no_providers"
                /\ f.attempts = <<>>

\* the implicit initialize called a provider's initialize(), which raised,
\* and no provider is live
C6_Witness ==
    \E t \in Tasks :
        /\ GenerateDone(calls[t]) /\ calls[t].live = <<>>
        /\ calls[t].init_failed # {}

\* C7: a finished generate_text call has either returned the response of a
\* provider it attempted or raised an error of the manager itself, of kind
\* no_providers or all_providers_failed; the errors of the providers
\* (raised by initialize() during the implicit initialize or by
\* generate_text()) do not leave the call.
C7_OnlyTerminalErrors ==
    \A t \in Tasks :
        LET f == calls[t]
        IN  GenerateDone(f) =>
                \/ /\ f.result.kind = "return"
                   /\ f.attempts # <<>>
                   /\ f.result.response = AIResponse(LastAttempted(f))
                   /\ f.result.error = NoError
                \/ /\ f.result.kind = "raise"
                   /\ f.result.error.provider = "manager"
                   /\ f.result.error.error_code \in {"no_providers", "all_providers_failed"}
                   /\ f.result.response = NoResponse

\* a provider's initialize() raised during the implicit initialize and
\* another provider's generate_text raised something that is no ProviderError
C7_Witness ==
    \E t \in Tasks :
        /\ GenerateDone(calls[t])
        /\ calls[t].init_failed # {}
        /\ calls[t].outcome = "exception"
        /\ calls[t].result.kind = "raise"

-----------------------------------------------------------------------------
(* Properties of initialize and cleanup *)

Finished(f, op) == f.op = op /\ f.pc = "done"

\* the provider objects of the live map
Objects(provs) == {provs[i] : i \in 1..Len(provs)}

\* C8 as stated: get_available_providers() right after cleanup() returns
\* an empty list.
C8_EmptyAfterCleanup ==
    \A t \in Tasks :
        (Finished(calls[t], "get_available_providers") /\ lastOp = "cleanup") =>
            calls[t].result.list = <<>>

\* C8 amended: cleanup() leaves the live map empty and the manager
\* uninitialized; get_available_providers() right after it initializes
\* again and returns the names of the providers that this initialization
\* made live, all of them objects constructed by this call.
C8_NoStaleAfterCleanup ==
    \A t \in Tasks :
        LET f == calls[t]
        IN  /\ Finished(f, "cleanup") => (providers = <<>> /\ ~initialized)
            /\ (Finished(f, "get_available_providers") /\ lastOp = "cleanup") =>
                   /\ ~f.was_initialized /\ f.live0 = <<>>
                   /\ \A n \in Names(providers) : InSeq(n, f.result.list)
                   /\ \A i \in 1..Len(f.result.list) :
                          /\ f.result.list[i] \in Names(providers)
                          /\ InSeq(f.result.list[i], f.built)
                          /\ Lookup(providers, f.result.list[i]).id = <<t, cleanups>>

\* cleanup() removed live providers and the call after it returns a provider again
C8_Witness ==
    \E t \in Tasks :
        /\ Finished(calls[t], "get_available_providers") /\ lastOp = "cleanup"
        /\ calls[t].result.list # <<>>

\* C9: initialize() right after initialize() leaves the live map as the
\* first call left it, constructs no provider and calls initialize() on none.
C9_InitializeIdempotent ==
    \A t \in Tasks :
        LET f == calls[t]
        IN  (Finished(f, "initialize") /\ lastOp = "initialize") =>
                /\ providers = f.live0
                /\ f.built = <<>>
                /\ f.inited = <<>>

\* the second of two initialize() calls is over and providers are live
C9_Witness ==
    \E t \in Tasks :
        /\ Finished(calls[t], "initialize") /\ lastOp = "initialize"
        /\ Len(providers) >= 2

\* the names initialize() is to make live from the configuration cfgs when
\* the initialize() of the providers named in failed raises
ExpectedLive(cfgs, failed) ==
    {cfgs[i].name : i \in {j \in 1..Len(cfgs) :
        /\ is_configured(cfgs[j].cfg)
        /\ is_available(NewProvider(cfgs[j], <<>>))
        /\ cfgs[j].name \notin failed}}

\* the names whose configuration is is_configured
ConfiguredNames(cfgs) ==
    {cfgs[i].name : i \in {j \in 1..Len(cfgs) : is_configured(cfgs[j].cfg)}}

\* C10 as stated: after configure_from_env and initialize the live set is
\* the set of the configured, available providers whose initialize() did
\* not raise, and generate_text attempts no provider whose configuration
\* is not is_configured.
C10_LiveSetIsConfigured ==
    \A t \in Tasks :
        LET f == calls[t]
        IN  /\ (Finished(f, "initialize") /\ lastOp = "configure_from_env") =>
                   Names(providers) = ExpectedLive(provider_configs, f.init_failed)
            /\ InGenerate(f) =>
                   \A i \in 1..Len(f.attempts) :
                       f.attempts[i].name \in ConfiguredNames(provider_configs)

\* C10 amended: after configure_from_env and initialize on a manager that
\* was not initialized before (new, or after cleanup()), the live set is
\* the set of the configured, available providers whose initialize() did
\* not raise; initialize constructs exactly the providers whose
\* configuration is is_configured, and generate_text attempts only live
\* providers, each constructed from a credential that is is_configured.
C10_LiveSetOfFirstInitialize ==
    \A t \in Tasks :
        LET f == calls[t]
        IN  /\ (Finished(f, "initialize") /\ lastOp = "configure_from_env"
                    /\ ~f.was_initialized) =>
                   /\ Names(providers) = ExpectedLive(provider_configs, f.init_failed)
                   /\ {f.built[i] : i \in 1..Len(f.built)} = ConfiguredNames(provider_configs)
                   /\ \A p \in Objects(providers) :
                          p.api_key = Lookup(provider_configs, p.name).cfg.api_key
            /\ \A i \in 1..Len(f.built) :
                   f.built[i] \in ConfiguredNames(f.cfgs)
            /\ InGenerate(f) =>
                   \A i \in 1..Len(f.attempts) :
                       /\ f.attempts[i] \in Objects(f.live)
                       /\ is_configured(ProviderConfig(f.attempts[i].name, f.attempts[i].api_key))

\* only anthropic has a credential: it alone is live, the openai provider
\* has a configuration and was not constructed
C10_Witness ==
    \E t \in Tasks :
        /\ Finished(calls[t], "initialize") /\ lastOp = "configure_from_env"
        /\ ~calls[t].was_initialized
        /\ NameSeq(providers) = <<"anthropic">>
        /\ calls[t].built = <<"anthropic">>
        /\ "openai" \in Names(provider_configs)
        /\ AvailableList(provider_priority, providers) = <<"anthropic">>
        /\ PrioIndex("anthropic") > 0 /\ PrioIndex("anthropic") < PrioIndex("openai")

-----------------------------------------------------------------------------
(* Properties of the configuration predicates *)

\* C11: the local provider needs no credential.  When the settings carry
\* OLLAMA_MODEL, configure_from_env and an initialize() that runs its pass
\* leave ollama live, whatever its credential is, unless its own
\* initialize() raised.
C11_OllamaExempt ==
    \A t \in Tasks :
        LET f == calls[t]
        IN  (/\ Finished(f, "initialize") /\ lastOp = "configure_from_env"
             /\ ~f.was_initialized
             /\ "ollama" \in Names(provider_configs)
             /\ "ollama" \notin f.init_failed) =>
                "ollama" \in Names(providers)

\* the classes of credentials, read off the characters of the credential
KeyAbsent(key) == key = None
KeyBlank(key) == \A i \in 1..Len(key) : key[i] = " "
KeyPlaceholder(key) ==
    /\ Len(key) >= Len(Chr_your)
    /\ \A i \in 1..Len(Chr_your) : key[i] = Chr_your[i]
KeySentinel(key) == Len(key) = 4 /\ key[1] = "n" /\ key[2] = "o" /\ key[3] = "n" /\ key[4] = "e"

\* C12: is_configured() is true exactly when the credential is present, has
\* a character that is not whitespace, does not begin with "your-", is not
\* "none", and enabled is set; for an absent, empty, whitespace-only,
\* "none" or placeholder-prefixed credential it is false whatever enabled is.
C12_IsConfigured ==
    (unit.fn = "is_configured" /\ unit.called) =>
        LET key == unit.cfg.api_key
            bad == KeyAbsent(key) \/ KeyBlank(key) \/ KeyPlaceholder(key) \/ KeySentinel(key)
        IN  /\ unit.result <=> (~bad /\ unit.cfg.enabled)
            /\ bad => ~unit.result

\* a placeholder-prefixed credential with enabled set, judged not
\* configured, and a credential that only contains the sentinel, judged
\* configured
C12_Witness ==
    /\ unit.fn = "is_configured" /\ unit.called
    /\ \/ unit.cfg.api_key = Chr_your \o <<"k">> /\ unit.cfg.enabled /\ ~unit.result
       \/ unit.cfg.api_key = <<" ">> \o Chr_none /\ unit.cfg.enabled /\ unit.result

-----------------------------------------------------------------------------
(* Properties of initialize and cleanup *)

\* the names in a sequence of names
Range(seq) == {seq[i] : i \in 1..Len(seq)}

\* C13: initialize() never raises.  A pass of initialize() returns with
\* initialized set; the providers whose initialize() raised, and only
\* those, are skipped: the live set is the set of the configured and
\* available providers of the configuration minus the ones that raised,
\* also when every one raised.  While the pass goes on no provider that
\* raised is live, and every provider initialized without raising is.
C13_InitializeNeverRaises ==
    \A t \in Tasks :
        LET f == calls[t]
            ran == f.op = "initialize" /\ ~f.was_initialized
        IN  /\ (ran /\ f.pc = "done") =>
                 /\ f.result = Returned
                 /\ initialized
                 /\ Names(providers) = ExpectedLive(f.cfgs, f.init_failed)
                 /\ f.init_failed \subseteq Range(f.inited)
            /\ (ran /\ f.pc = "init_await") =>
                 /\ f.init_failed \cap Names(providers) = {}
                 /\ Range(f.inited) \ (f.init_failed \cup {f.cur.name}) \subseteq Names(providers)

\* initialize() of the first provider raised and the second is live
C13_Witness ==
    \E t \in Tasks :
        /\ Finished(calls[t], "initialize") /\ ~calls[t].was_initialized
        /\ calls[t].inited = <<"openai", "anthropic">>
        /\ calls[t].init_failed = {"openai"}
        /\ NameSeq(providers) = <<"anthropic">>

-----------------------------------------------------------------------------
(* Properties of the provider classes *)

\* the ways a health_check is made to fail: the vendor call raises, the
\* status is an error, the body is no JSON or lacks the parts read from it
InjectedFailures == {"raise", "status", "badjson", "malformed"}

\* C14: health_check() of every provider class never raises; when the
\* lazy initialize(), the vendor call or the reading of the reply fails,
\* it returns False.
C14_HealthCheckNeverRaises ==
    (unit.fn = "health_check" /\ unit.pc = "done") =>
        /\ unit.result.kind = "return"
        /\ (unit.init = "raise" \/ unit.reply \in InjectedFailures) =>
               unit.result.value = FALSE
        /\ unit.result.value => unit.reply \in {"text", "listed"}

\* a health_check whose lazy initialize() raised, and one whose reply
\* could not be read, both returned False
C14_Witness ==
    /\ unit.fn = "health_check" /\ unit.pc = "done"
    /\ unit.result = ReturnBool(FALSE)
    /\ \/ unit.init = "raise" /\ unit.variant = "ollama"
       \/ unit.reply = "empty" /\ unit.variant = "openai"

\* C15: a successful generate_text of every provider class returns a
\* usage dict with the three keys prompt_tokens, completion_tokens and
\* total_tokens, total_tokens being the sum of the other two, and all
\* three 0 when the reply carries no usage data.
C15_UsageComplete ==
    (unit.fn = "generate_text" /\ unit.pc = "done" /\ unit.result.kind = "return") =>
        LET usage == unit.result.usage
        IN  /\ DOMAIN usage = {"prompt_tokens", "completion_tokens", "total_tokens"}
            /\ usage["total_tokens"] = usage["prompt_tokens"] + usage["completion_tokens"]
            /\ ~unit.payload.given =>
                   \A key \in DOMAIN usage : usage[key] = 0

-----------------------------------------------------------------------------
(* Properties of get_available_providers, get_preferred_provider and       *)
(* get_provider_status *)

\* position of the provider named n in the dict provs (0: none)
DictIndex(provs, n) ==
    LET at == {i \in 1..Len(provs) : provs[i].name = n}
    IN  IF at = {} THEN 0 ELSE CHOOSE i \in at : TRUE

\* C16: get_available_providers() returns exactly the live identities: the
\* entries of the priority list that name a live identity come first, one
\* for one in the order of the priority list, and the live identities the
\* list does not name follow them, once each, in the order of the live map.
C16_AvailableOrder ==
    \A t \in Tasks :
        LET f == calls[t]
            r == f.result.list
            at == {q \in 1..Len(provider_priority) :
                     \E n \in Names(f.live) : provider_priority[q] = <<n>>}
            k == Cardinality(at)
            nth(i) == CHOOSE q \in at : Cardinality({p \in at : p < q}) = i - 1
        IN  Finished(f, "get_available_providers") =>
                /\ f.result.kind = "return"
                /\ Range(r) = Names(f.live)
                /\ Len(r) >= k
                /\ \A i \in 1..k : <<r[i]>> = provider_priority[nth(i)]
                /\ \A i \in (k + 1)..Len(r) : PrioIndex(r[i]) = 0
                /\ \A i, j \in (k + 1)..Len(r) :
                     i < j => DictIndex(f.live, r[i]) < DictIndex(f.live, r[j])

\* anthropic is live and not in the priority list, ollama is named by it:
\* ollama is returned first although anthropic precedes it in the live map
C16_Witness ==
    \E t \in Tasks :
        /\ Finished(calls[t], "get_available_providers")
        /\ NameSeq(calls[t].live) = <<"anthropic", "ollama">>
        /\ PrioIndex("anthropic") = 0
        /\ calls[t].result.list = <<"ollama", "anthropic">>

\* the entries of the priority list that name a live provider of the frame,
\* as names, in the order of the list
LiveWalk(f) ==
    LET named == SelectSeq(provider_priority,
                           LAMBDA e : \E n \in Names(f.live) : e = <<n>>)
    IN  [i \in 1..Len(named) |-> named[i][1]]

\* C17: get_preferred_provider() probes the live identities in the order
\* of the priority list; it returns the first one whose health_check() is
\* true and probes none after it; a probe that raises is passed over like
\* one that returns false; it returns None when no probe was true.
C17_FirstHealthy ==
    \A t \in Tasks :
        LET f == calls[t]
            n == Len(f.probes)
        IN  Finished(f, "get_preferred_provider") =>
                /\ f.result.kind = "return"
                /\ n <= Len(LiveWalk(f))
                /\ \A i \in 1..n : f.probes[i].name = LiveWalk(f)[i]
                /\ \A i \in 1..(n - 1) : f.probes[i].outcome \in {"false", "raise"}
                /\ IF n > 0 /\ f.probes[n].outcome = "true"
                   THEN f.result.name = f.probes[n].name
                   ELSE f.result.name = NoName /\ n = Len(LiveWalk(f))

\* the probe of the first provider raised, the second was healthy and is
\* returned, the third live provider of the list was not probed
C17_Witness ==
    \E t \in Tasks :
        /\ Finished(calls[t], "get_preferred_provider")
        /\ Len(calls[t].probes) = 2
        /\ calls[t].probes[1].outcome = "raise"
        /\ calls[t].result.name = calls[t].probes[2].name
        /\ Len(LiveWalk(calls[t])) = 3

\* C18: get_provider_status() never raises; it returns one entry for each
\* live provider and no other; each entry has available True and healthy
\* equal to what the provider's health_check() returned; a provider whose
\* health_check() raised has healthy False and the text of the exception as
\* last_error, and the providers after it are probed all the same.
C18_StatusOfEveryLive ==
    \A t \in Tasks :
        LET f == calls[t]
            st == f.result.status
        IN  Finished(f, "get_provider_status") =>
                /\ f.result.kind = "return"
                /\ NameSeq(st) = NameSeq(f.live)
                /\ Len(f.probes) = Len(f.live)
                /\ \A i \in 1..Len(f.live) :
                     /\ f.probes[i].name = f.live[i].name
                     /\ f.probes[i].id = f.live[i].id
                     /\ st[i].available
                     /\ st[i].healthy <=> f.probes[i].outcome = "true"
                     /\ IF f.probes[i].outcome = "raise"
                        THEN st[i].last_error = <<f.live[i].name, "exception">>
                        ELSE st[i].last_error = None

\* the health_check() of the first live provider raised and the second
\* provider was probed and found healthy
C18_Witness ==
    \E t \in Tasks :
        /\ Finished(calls[t], "get_provider_status")
        /\ Len(calls[t].result.status) >= 2
        /\ calls[t].probes[1].outcome = "raise"
        /\ ~calls[t].result.status[1].healthy
        /\ calls[t].result.status[2].healthy

\* C19: cleanup() calls cleanup() on every live provider, also after one
\* of these calls raised, and returns without raising; when it returns the
\* live map is empty and initialized is False; no step of it changes the
\* configuration map or the priority list.
C19_CleanupTearsDownLiveOnly ==
    [][\A t \in Tasks :
          (calls[t].op = "cleanup" \/ calls'[t].op = "cleanup") =>
              /\ provider_configs' = provider_configs
              /\ provider_priority' = provider_priority
              /\ Finished(calls'[t], "cleanup") =>
                    /\ calls'[t].result = Returned
                    /\ calls'[t].cleaned = calls'[t].live0
                    /\ providers' = <<>>
                    /\ ~initialized']_vars

\* cleanup() of the first of two live providers raised, the second was
\* cleaned up too, and the configuration is still there
C19_Witness ==
    \E t \in Tasks :
        /\ Finished(calls[t], "cleanup")
        /\ Len(calls[t].cleaned) = 2
        /\ calls[t].cleanup_failed = {calls[t].cleaned[1].name}
        /\ providers = <<>>
        /\ Len(provider_configs) > 0 /\ Len(provider_priority) > 0

\* a step of configure_from_env (the only step that leaves every frame as
\* it is), and a step of a call of initialize() by task t
IsConfigureStep == calls' = calls /\ lastOp' = "configure_from_env"
IsInitializeStep(t) == calls[t].op = "initialize" \/ calls'[t].op = "initialize"

\* C20: while the manager is initialized, no configure_from_env() and no
\* initialize() changes the live map (names and provider objects) or the
\* initialized flag, whatever the new settings are; the live map changes
\* only in a cleanup() or in the pass of a call that found the manager
\* uninitialized.
C20_ReconfigureKeepsLive ==
    [][/\ (initialized /\ (IsConfigureStep \/ \E t \in Tasks : IsInitializeStep(t))) =>
             (providers' = providers /\ initialized')
       /\ providers' # providers =>
             \E t \in Tasks : \/ calls'[t].op = "cleanup"
                              \/ calls'[t].op # "idle" /\ ~calls'[t].was_initialized]_vars

\* new settings were given to an initialized manager and initialize() was
\* called again: the live set is not the one of the new configuration
C20_Witness ==
    \E t \in Tasks :
        /\ Finished(calls[t], "initialize") /\ calls[t].was_initialized
        /\ lastOp = "configure_from_env"
        /\ initialized /\ providers # <<>>
        /\ Names(providers) # ExpectedLive(provider_configs, {})

-----------------------------------------------------------------------------
(* Properties of calls that overlap *)

\* the outcomes of provider.generate_text that are failures
FailureOutcomes == {"auth_error", "rate_limit", "exception"}

\* C21: the attempts of one generate_text call are strictly sequential.  A
\* step starts at most one attempt of a call; while an attempt is awaited
\* it is the only one of its call in flight, and the next attempt of the
\* call starts only in the step in which the awaited one ends, and only
\* when it ended with a failure.
C21_AttemptsSequential ==
    [][\A t \in Tasks :
          LET f == calls[t]
              g == calls'[t]
          IN  Len(g.attempts) > Len(f.attempts) =>
                  /\ g.op = "generate_text" /\ g.pc = "gen_await"
                  /\ Len(g.attempts) = Len(f.attempts) + 1
                  /\ f.attempts # <<>> =>
                        /\ f.pc = "gen_await"
                        /\ g.outcome \in FailureOutcomes
                        /\ SubSeq(g.attempts, 1, Len(f.attempts)) = f.attempts]_vars

\* both callers have an attempt in flight, the first caller its second one
\* after the first one failed
C21_Witness ==
    /\ calls["t1"].pc = "gen_await" /\ calls["t2"].pc = "gen_await"
    /\ Len(calls["t1"].attempts) = 2
    /\ calls["t1"].outcome \in FailureOutcomes

\* C22: no provider is attempted twice in one generate_text call, whatever
\* its failure was and also when it is both the preferred provider and an
\* entry of the priority list; a call that ends with all_providers_failed
\* has attempted every provider that was live for it exactly once.
C22_AtMostOnce ==
    \A t \in Tasks :
        LET f == calls[t]
            n == Len(f.attempts)
        IN  InGenerate(f) =>
                /\ \A i, j \in 1..n : i # j => f.attempts[i].name # f.attempts[j].name
                /\ (f.pc = "done" /\ f.result.kind = "raise"
                        /\ f.result.error.error_code = "all_providers_failed") =>
                       /\ \A p \in Objects(f.live0) \cup Objects(f.live) :
                              Cardinality({i \in 1..n : f.attempts[i] = p}) = 1
                       /\ n = Len(f.live)

\* the preferred provider, which the priority list names too, failed with
\* auth_error, and so did the two other live providers after it
C22_Witness ==
    \E t \in Tasks :
        /\ GenerateDone(calls[t])
        /\ calls[t].result.error.error_code = "all_providers_failed"
        /\ calls[t].preferred = "ollama" /\ PrioIndex("ollama") > 0
        /\ NameSeq(calls[t].attempts) = <<"ollama", "anthropic", "openai">>
        /\ calls[t].outcome = "auth_error"

\* what a finished request must be, given only the manager's state, its
\* argument and the outcomes of the provider calls it awaited
AsIfAlone(f) ==
    LET n == Len(f.attempts)
        m == Len(f.probes)
        order == ProviderOrder(f.preferred, provider_priority, providers)
    IN  CASE f.op = "generate_text" ->
                /\ f.order = order
                /\ n <= Len(order)
                /\ \A i \in 1..n : f.attempts[i] = Lookup(providers, order[i])
                /\ IF providers = <<>> THEN f.result = Raise(NoProvidersError)
                   ELSE IF f.outcome = "ok"
                   THEN f.result = ReturnResponse(AIResponse(f.attempts[n]))
                   ELSE /\ n = Len(order)
                        /\ f.result.kind = "raise"
                        /\ f.result.error.error_code = "all_providers_failed"
                        /\ f.result.error.msg[2] = RaisedBy(f.attempts[n], f.outcome).msg
          [] f.op = "get_available_providers" ->
                f.result = ReturnList(AvailableList(provider_priority, providers))
          [] f.op = "get_provider_status" ->
                /\ m = Len(providers)
                /\ f.result = ReturnStatus([i \in 1..m |->
                                              StatusOf(providers[i], f.probes[i].outcome)])
          [] f.op = "get_preferred_provider" ->
                /\ \A i \in 1..m : f.probes[i].name = LiveWalk(f)[i]
                /\ \A i \in 1..(m - 1) : f.probes[i].outcome # "true"
                /\ IF m > 0 /\ f.probes[m].outcome = "true"
                   THEN f.result = ReturnName(f.probes[m].name)
                   ELSE f.result = ReturnName(NoName) /\ m = Len(LiveWalk(f))
          [] OTHER -> TRUE

\* C23: while the manager is initialized, the steps of overlapping
\* generate_text, get_provider_status, get_available_providers and
\* get_preferred_provider calls change neither the live map, nor the
\* configuration map, nor the priority list, nor the initialized flag, and
\* every such call ends with the attempts and the result it would have
\* alone.
C23_ReadersDoNotInterfere ==
    [][initialized =>
          /\ providers' = providers /\ initialized'
          /\ provider_configs' = provider_configs
          /\ provider_priority' = provider_priority
          /\ \A t \in Tasks :
                (calls'[t].pc = "done" /\ calls'[t].op # "initialize") =>
                    /\ calls'[t].live = providers
                    /\ AsIfAlone(calls'[t])]_vars

\* a generate_text call that went through two attempts has ended while the
\* other caller is in the middle of get_provider_status
C23_Witness ==
    /\ GenerateDone(calls["t1"]) /\ Len(calls["t1"].attempts) = 2
    /\ calls["t2"].pc = "status_await" /\ Len(calls["t2"].probes) = 2
    /\ calls["t1"].result.kind = "raise"

-----------------------------------------------------------------------------
(* Properties of the initialized flag *)

\* in this step the pass of initialize() that task t runs, by itself or
\* inside another method, comes to its end
PassEnds(t) ==
    /\ calls[t].pc \in {"idle", "init_await"}
    /\ calls'[t].pc \notin {"idle", "init_await"}
    /\ calls'[t].op \in {"initialize", "generate_text", "get_available_providers",
                         "get_provider_status", "get_preferred_provider"}
    /\ ~calls'[t].was_initialized
    /\ Range(calls'[t].built) = ConfiguredNames(calls'[t].cfgs)

\* C24: initialized becomes true only in the step that ends a pass of
\* initialize(), run by initialize() itself or by one of the methods that
\* call it; it becomes false only in the step that ends a cleanup(); no
\* other step changes it, whatever the providers do.
C24_FlagTransitions ==
    [][/\ (~initialized /\ initialized') => \E t \in Tasks : PassEnds(t)
       /\ (initialized /\ ~initialized') =>
             \E t \in Tasks : calls[t].pc # "done" /\ Finished(calls'[t], "cleanup")
       /\ (\E t \in Tasks : PassEnds(t)) => initialized']_vars

\* after a cleanup() a generate_text call ran the pass again, a provider's
\* initialize() raised in it, every attempt of the call failed, and
\* initialized is true
C24_Witness ==
    \E t \in Tasks :
        /\ GenerateDone(calls[t]) /\ ~calls[t].was_initialized
        /\ cleanups = 1 /\ initialized
        /\ calls[t].init_failed # {}
        /\ calls[t].result.kind = "raise"

-----------------------------------------------------------------------------
(* Properties of the errors of the provider classes *)

\* a generate_text of the class whose vendor call has ended with the reply
GenerateGot(variants, replies) ==
    /\ unit.fn = "generate_text" /\ unit.pc = "done"
    /\ unit.variant \in variants /\ unit.reply \in replies

\* C25: generate_text of the xAI and OpenRouter adapters classifies a
\* failure: HTTP 401 is auth_error, HTTP 429 is rate_limit, a body with an
\* "error" field is api_error, anything else (other HTTP error statuses
\* too) is unknown_error.
C25_HttpErrorKinds ==
    LET raw == {"openrouter", "xai"}
    IN  /\ GenerateGot(raw, {"HTTP401"}) => unit.result.code = "auth_error"
        /\ GenerateGot(raw, {"HTTP429"}) => unit.result.code = "rate_limit"
        /\ GenerateGot(raw, {"errorbody"}) => unit.result.code = "api_error"
        /\ GenerateGot(raw, {"HTTP500", "ConnectError", "Exception"}) =>
               unit.result.code = "unknown_error"

\* the kinds of a ProviderError
ErrorKinds ==
    {"auth_error", "rate_limit", "api_error", "content_filter", "model_not_found",
     "connection_error", "unknown_error"}

\* C26: every error that leaves initialize() or generate_text() of a
\* provider class is an AIProviderError with the provider's own name and
\* an error_code of the closed set of kinds; a failure to construct the
\* client in initialize() has the kind unknown_error.
C26_ErrorsAreTagged ==
    (unit.fn \in {"initialize", "generate_text"} /\ unit.pc = "done"
        /\ unit.result.kind = "raise") =>
        /\ unit.result.provider = unit.variant
        /\ unit.result.code \in ErrorKinds
        /\ unit.init = "raise" => unit.result.code = "unknown_error"

-----------------------------------------------------------------------------
(* Properties of the lists and the probes under priority lists that repeat  *)
(* or omit identities *)

\* C27: for every priority list of configure_from_env, one that names an
\* identity twice or names identities that are not live too, the list that
\* get_available_providers() returns has each live identity exactly once
\* and nothing else.
C27_AvailableIsPermutation ==
    \A t \in Tasks :
        LET f == calls[t]
            r == f.result.list
        IN  Finished(f, "get_available_providers") =>
                /\ Range(r) = Names(f.live)
                /\ \A i, j \in 1..Len(r) : r[i] = r[j] => i = j

\* C30: get_preferred_provider() returns None only if no live provider is
\* healthy: a call that returns None has asked health_check() of every
\* live provider, those the priority list does not name too, and none of
\* them answered true; any other result is a live identity whose
\* health_check() answered true.
C30_NoneOnlyIfNoneHealthy ==
    \A t \in Tasks :
        LET f == calls[t]
            asked(n) == {i \in 1..Len(f.probes) : f.probes[i].name = n}
        IN  Finished(f, "get_preferred_provider") =>
                IF f.result.name = NoName
                THEN \A n \in Names(f.live) :
                        /\ asked(n) # {}
                        /\ \A i \in asked(n) : f.probes[i].outcome # "true"
                ELSE /\ f.result.name \in Names(f.live)
                     /\ \E i \in asked(f.result.name) : f.probes[i].outcome = "true"

-----------------------------------------------------------------------------
(* Properties of callers that run initialize() and cleanup() next to the   *)
(* other methods *)

RaisedAllFailed(f) ==
    /\ GenerateDone(f) /\ f.result.kind = "raise"
    /\ f.result.error.error_code = "all_providers_failed"

\* C29: a generate_text that raises all_providers_failed has attempted at
\* least one provider and the error it embeds is the error of a provider,
\* never None; so it is too when cleanup() runs while the call is
\* suspended, and every provider the call attempts is in the live map at
\* the time of the attempt (one that cleanup removed is not attempted).
C29_AllFailedAfterAttempt ==
    [][\A t \in Tasks :
          LET f == calls'[t]
          IN  /\ (f.attempts # calls[t].attempts /\ f.attempts # <<>>) =>
                    LastAttempted(f) \in Objects(providers')
              /\ RaisedAllFailed(f) =>
                    /\ Len(f.attempts) >= 1
                    /\ f.last_error # NoError
                    /\ f.last_error.provider = LastAttempted(f).name
                    /\ f.result.error.msg[2] = f.last_error.msg
                    /\ f.result.error.msg[2] # None]_vars

\* cleanup() of the other caller emptied the live map while the first
\* attempt was awaited: the second provider of the order was passed over
\* and all_providers_failed carries the error of the first
C29_Witness ==
    \E t \in Tasks :
        /\ RaisedAllFailed(calls[t])
        /\ Len(calls[t].order) = 2 /\ Len(calls[t].attempts) = 1
        /\ providers = <<>> /\ cleanups > 0


====
